---- MODULE Spec2Model ----
(***************************************************************************)
(* A model of wasm-chisel's ModuleValidator (src/wasm-chisel/src/lib.rs):  *)
(* the simulated operand stack, the per-function instruction loop, the     *)
(* accessor resolution and the signature check.                            *)
(***************************************************************************)
EXTENDS Integers, Sequences, FiniteSets, TLC

\* ------------------------------------------------------------------ bounds
\* Total number of instructions in a module's code section, the End that
\* closes each function body counted (so it bounds the number of bodies too).
MaxInstrs == 4
\* Number of calls of validate made on one ModuleValidator instance.
MaxCalls == 2

\* ------------------------------------------------------------- data model
\* parity_wasm's ValueType.
ValueType == {"I32", "I64", "F32", "F64"}

\* parity_wasm's Local: a run of `count` local variables of one type.
Local(count, value_type) == [count |-> count, value_type |-> value_type]

\* An Instruction: its variant (the discriminant) and its payload.
Ins(op, idx) == [op |-> op, idx |-> idx]
GetLocal(i)  == Ins("GetLocal", i)
GetGlobal(i) == Ins("GetGlobal", i)

\* Option<T>
None    == [some |-> FALSE, val |-> <<>>]
Some(x) == [some |-> TRUE, val |-> x]

\* Signature { pop, push }
Signature(pop, push) == [pop |-> pop, push |-> push]

\* Result<bool, InstructionError>, and the abort of the thread (a panic).
NoIns == Ins("-", 0)
Ok(b)  == [kind |-> "Ok", val |-> b, error |-> "-", instruction |-> NoIns]
Err(e, ins) == [kind |-> "Err", val |-> FALSE, error |-> e, instruction |-> ins]
InvalidOperation(ins) == Err("InvalidOperation", ins)
GlobalNotFound == Err("GlobalNotFound", NoIns)
LocalNotFound == Err("LocalNotFound", NoIns)
UnmatchedInstruction == Err("UnmatchedInstruction", NoIns)
Panic == [kind |-> "Panic", val |-> FALSE, error |-> "-", instruction |-> NoIns]

\* What a &mut self method leaves behind: the stack and what it returned.
Outcome(stk, res) == [stack |-> stk, res |-> res]

\* -------------------------------------------------- classification tables
\* classifications.rs: the accessor category.
GET_INST == <<GetGlobal(0), GetLocal(0)>>
\* classifications.rs: the binary operators of each value type.
I32_BINOP == <<Ins("I32Add", 0), Ins("I32Sub", 0), Ins("I32Mul", 0), Ins("I32DivS", 0)>>
I64_BINOP == <<Ins("I64Add", 0), Ins("I64Sub", 0), Ins("I64Mul", 0), Ins("I64DivS", 0)>>
F32_BINOP == <<Ins("F32Add", 0), Ins("F32Sub", 0), Ins("F32Mul", 0), Ins("F32Div", 0)>>
F64_BINOP == <<Ins("F64Add", 0), Ins("F64Sub", 0), Ins("F64Mul", 0), Ins("F64Div", 0)>>
\* classifications.rs: the constant pushes.
CONST_INST == <<Ins("I32Const", 0), Ins("I64Const", 0), Ins("F32Const", 0), Ins("F64Const", 0)>>

\* std::mem::discriminant: the variant of an instruction, its payload ignored.
discriminant(ins) == ins.op

\* contains: is the instruction's variant the variant of an entry of the table?
contains(instruction, container) ==
    \E k \in 1..Len(container) : discriminant(container[k]) = discriminant(instruction)

\* The characters of the variant names that format!("{:?}", instruction)
\* starts with, for the variants the model uses.
VariantChars ==
    [op \in {"I32Const", "I64Const", "F32Const", "F64Const", "GetLocal", "GetGlobal",
             "I32Add", "I64Add", "F32Add", "F64Add", "Nop", "End"} |->
        CASE op = "I32Const"  -> <<"I", "3", "2", "C", "o", "n", "s", "t">>
          [] op = "I64Const"  -> <<"I", "6", "4", "C", "o", "n", "s", "t">>
          [] op = "F32Const"  -> <<"F", "3", "2", "C", "o", "n", "s", "t">>
          [] op = "F64Const"  -> <<"F", "6", "4", "C", "o", "n", "s", "t">>
          [] op = "GetLocal"  -> <<"G", "e", "t", "L", "o", "c", "a", "l">>
          [] op = "GetGlobal" -> <<"G", "e", "t", "G", "l", "o", "b", "a", "l">>
          [] op = "I32Add"    -> <<"I", "3", "2", "A", "d", "d">>
          [] op = "I64Add"    -> <<"I", "6", "4", "A", "d", "d">>
          [] op = "F32Add"    -> <<"F", "3", "2", "A", "d", "d">>
          [] op = "F64Add"    -> <<"F", "6", "4", "A", "d", "d">>
          [] op = "Nop"       -> <<"N", "o", "p">>
          [] op = "End"       -> <<"E", "n", "d">>]

\* format!("{:?}", instruction): the variant name, then the payload in brackets.
DebugFormat(instruction) ==
    IF instruction.op \in {"I32Const", "I64Const", "F32Const", "F64Const", "GetLocal", "GetGlobal"}
    THEN VariantChars[instruction.op] \o <<"(", instruction.idx, ")">>
    ELSE VariantChars[instruction.op]

\* ------------------------------------------------------ signature resolver
\* get_const_signature: the type is read off the first three characters of
\* the instruction's debug text.
\* get_const_signature reading one character of the variant's name instead
\* of three: the width of the type is lost.
get_const_signature_firstchar(instruction) ==
    LET inst_type == SubSeq(DebugFormat(instruction), 1, 1)
    IN  CASE inst_type = <<"I">> -> Some(Signature(<<>>, <<"I32">>))
          [] inst_type = <<"F">> -> Some(Signature(<<>>, <<"F32">>))
          [] OTHER -> None

get_const_signature(instruction) ==
    LET inst_type == SubSeq(DebugFormat(instruction), 1, 3)
    IN  CASE inst_type = <<"I", "3", "2">> -> Some(Signature(<<>>, <<"I32">>))
          [] inst_type = <<"I", "6", "4">> -> Some(Signature(<<>>, <<"I64">>))
          [] inst_type = <<"F", "3", "2">> -> Some(Signature(<<>>, <<"F32">>))
          [] inst_type = <<"F", "6", "4">> -> Some(Signature(<<>>, <<"F64">>))
          [] OTHER -> None

\* get_instruction_signature with the accessors given a pushing signature of
\* their own.
get_instruction_signature_accessors(instruction) ==
    IF contains(instruction, GET_INST) THEN Some(Signature(<<>>, <<"I32">>))
    ELSE IF contains(instruction, I32_BINOP) THEN Some(Signature(<<"I32", "I32">>, <<"I32">>))
    ELSE IF contains(instruction, I64_BINOP) THEN Some(Signature(<<"I64", "I64">>, <<"I64">>))
    ELSE IF contains(instruction, F32_BINOP) THEN Some(Signature(<<"F32", "F32">>, <<"F32">>))
    ELSE IF contains(instruction, F64_BINOP) THEN Some(Signature(<<"F64", "F64">>, <<"F64">>))
    ELSE IF contains(instruction, CONST_INST) THEN get_const_signature(instruction)
    ELSE None

\* get_instruction_signature: the binary-operator tables in order, then the
\* constant pushes.
get_instruction_signature(instruction) ==
    IF contains(instruction, I32_BINOP) THEN Some(Signature(<<"I32", "I32">>, <<"I32">>))
    ELSE IF contains(instruction, I64_BINOP) THEN Some(Signature(<<"I64", "I64">>, <<"I64">>))
    ELSE IF contains(instruction, F32_BINOP) THEN Some(Signature(<<"F32", "F32">>, <<"F32">>))
    ELSE IF contains(instruction, F64_BINOP) THEN Some(Signature(<<"F64", "F64">>, <<"F64">>))
    ELSE IF contains(instruction, CONST_INST) THEN get_const_signature(instruction)
    ELSE None

\* ------------------------------------------------------- ModuleValidator
\* The loop of validate_instruction over signature.pop: each turn pops the
\* stack and compares; a mismatch or an empty stack returns the error with
\* the popped entries gone.
RECURSIVE PopLoop(_, _, _)
PopLoop(stk, pop, instruction) ==
    IF pop = <<>> THEN Outcome(stk, Ok(TRUE))
    ELSE IF stk = <<>> THEN Outcome(stk, InvalidOperation(instruction))
    ELSE LET stack_value == stk[Len(stk)]
             rest == SubSeq(stk, 1, Len(stk) - 1)
         IN  IF stack_value # Head(pop)
             THEN Outcome(rest, InvalidOperation(instruction))
             ELSE PopLoop(rest, Tail(pop), instruction)

\* validate_instruction with the comparison of line 93 left out: only an
\* empty stack is an error.
validate_instruction_unchecked(stk, signature, instruction) ==
    IF Len(stk) < Len(signature.pop)
    THEN Outcome(<<>>, InvalidOperation(instruction))
    ELSE Outcome(SubSeq(stk, 1, Len(stk) - Len(signature.pop)) \o signature.push, Ok(TRUE))

\* validate_instruction with the None arm of line 97 going on instead of
\* returning the error: an empty stack satisfies any pop.
RECURSIVE PopLoopLenient(_, _, _)
PopLoopLenient(stk, pop, instruction) ==
    IF pop = <<>> \/ stk = <<>> THEN Outcome(stk, Ok(TRUE))
    ELSE IF stk[Len(stk)] # Head(pop)
         THEN Outcome(SubSeq(stk, 1, Len(stk) - 1), InvalidOperation(instruction))
         ELSE PopLoopLenient(SubSeq(stk, 1, Len(stk) - 1), Tail(pop), instruction)

validate_instruction_lenient(stk, signature, instruction) ==
    LET popped == PopLoopLenient(stk, signature.pop, instruction)
    IN  IF popped.res.kind = "Err" THEN popped
        ELSE Outcome(popped.stack \o signature.push, Ok(TRUE))

\* validate_instruction with self.stack.pop().unwrap() in place of the match:
\* a pop of the empty stack aborts.
RECURSIVE PopLoopUnwrap(_, _, _)
PopLoopUnwrap(stk, pop, instruction) ==
    IF pop = <<>> THEN Outcome(stk, Ok(TRUE))
    ELSE IF stk = <<>> THEN Outcome(stk, Panic)
    ELSE IF stk[Len(stk)] # Head(pop)
         THEN Outcome(SubSeq(stk, 1, Len(stk) - 1), InvalidOperation(instruction))
         ELSE PopLoopUnwrap(SubSeq(stk, 1, Len(stk) - 1), Tail(pop), instruction)

validate_instruction_unwrap(stk, signature, instruction) ==
    LET popped == PopLoopUnwrap(stk, signature.pop, instruction)
    IN  IF popped.res # Ok(TRUE) THEN popped
        ELSE Outcome(popped.stack \o signature.push, Ok(TRUE))

\* validate_instruction returning Ok(false) where it returns the error.
validate_instruction_softfail(stk, signature, instruction) ==
    LET popped == PopLoop(stk, signature.pop, instruction)
    IN  IF popped.res.kind = "Err" THEN Outcome(popped.stack, Ok(FALSE))
        ELSE Outcome(popped.stack \o signature.push, Ok(TRUE))

\* validate_instruction extending the stack with signature.pop in line 101.
validate_instruction_pushpop(stk, signature, instruction) ==
    LET popped == PopLoop(stk, signature.pop, instruction)
    IN  IF popped.res.kind = "Err" THEN popped
        ELSE Outcome(popped.stack \o signature.pop, Ok(TRUE))

\* validate_instruction putting the popped entries back before it returns
\* the error.
validate_instruction_restore(stk, signature, instruction) ==
    LET popped == PopLoop(stk, signature.pop, instruction)
    IN  IF popped.res.kind = "Err" THEN Outcome(stk, popped.res)
        ELSE Outcome(popped.stack \o signature.push, Ok(TRUE))

\* validate_instruction
validate_instruction(stk, signature, instruction) ==
    LET popped == PopLoop(stk, signature.pop, instruction)
    IN  IF popped.res.kind = "Err" THEN popped
        ELSE Outcome(popped.stack \o signature.push, Ok(TRUE))

\* push_global_or_local, lines 113-114: the function's type, or the panic of
\* unwrap() on a missing section or of an index out of bounds.
FunctionType(m, index) ==
    IF ~m.functions.some THEN None
    ELSE IF index > Len(m.functions.val) THEN None
    ELSE LET type_ref == m.functions.val[index]
         IN  IF ~m.types.some THEN None
             ELSE IF type_ref + 1 > Len(m.types.val) THEN None
             ELSE Some(m.types.val[type_ref + 1])

\* ftype.params().iter().map(|f| Local::new(0, *f))
ParamLocals(params) == [k \in 1..Len(params) |-> Local(0, params[k])]

\* push_global_or_local, lines 116-121: the body's locals, then the parameters.
LocalsOf(body, ftype) == body.locals \o ParamLocals(ftype)

\* push_global_or_local (index is the body's 1-based place in the code section)
push_global_or_local(stk, m, instruction, body, index) ==
    LET type_variant == FunctionType(m, index)
    IN  IF ~type_variant.some THEN Outcome(stk, Panic)
        ELSE LET locals == LocalsOf(body, type_variant.val)
                 local == instruction.idx
             IN  CASE instruction.op = "GetGlobal" ->
                        IF local + 1 <= Len(locals)
                        THEN Outcome(Append(stk, locals[local + 1].value_type), Ok(TRUE))
                        ELSE Outcome(stk, GlobalNotFound)
                   [] instruction.op = "GetLocal" ->
                        IF local + 1 <= Len(locals)
                        THEN Outcome(Append(stk, locals[local + 1].value_type), Ok(TRUE))
                        ELSE Outcome(stk, LocalNotFound)
                   [] OTHER -> Outcome(stk, UnmatchedInstruction)

\* check_instructions treating an instruction without a signature as an
\* invalid operation under NumericInstructions.
check_instruction_strict(stk, m, flt, instruction, body, index) ==
    LET got == IF contains(instruction, GET_INST)
               THEN push_global_or_local(stk, m, instruction, body, index)
               ELSE Outcome(stk, Ok(TRUE))
        signature == get_instruction_signature(instruction)
    IN  IF got.res # Ok(TRUE) THEN got
        ELSE IF flt = "NumericInstructions"
             THEN IF signature.some
                  THEN validate_instruction(got.stack, signature.val, instruction)
                  ELSE IF contains(instruction, GET_INST) THEN got
                  ELSE Outcome(got.stack, InvalidOperation(instruction))
             ELSE got

\* check_instructions without the match on self.filter: the signature check
\* is made under either filter.
check_instruction_anyfilter(stk, m, flt, instruction, body, index) ==
    LET got == IF contains(instruction, GET_INST)
               THEN push_global_or_local(stk, m, instruction, body, index)
               ELSE Outcome(stk, Ok(TRUE))
        signature == get_instruction_signature(instruction)
    IN  IF got.res # Ok(TRUE) THEN got
        ELSE IF signature.some
             THEN validate_instruction(got.stack, signature.val, instruction)
             ELSE got

\* One turn of the loop of check_instructions (lines 70-82): the accessor
\* push, then the filter's check.
check_instruction(stk, m, flt, instruction, body, index) ==
    LET got == IF contains(instruction, GET_INST)
               THEN push_global_or_local(stk, m, instruction, body, index)
               ELSE Outcome(stk, Ok(TRUE))
    IN  IF got.res # Ok(TRUE) THEN got
        ELSE IF flt = "NumericInstructions"
             THEN LET signature == get_instruction_signature(instruction)
                  IN  IF signature.some
                      THEN validate_instruction(got.stack, signature.val, instruction)
                      ELSE got
             ELSE got

\* validate with the None arm of line 63 returning Ok(false).
NoCodeResult_false == Ok(FALSE)

\* validate, line 63: a module without a code section.
NoCodeResult == Ok(TRUE)

\* The loops going on after an error: its `?` dropped, only a false stops them.
LoopContinues_swallow(res) == res = Ok(TRUE) \/ res.kind = "Err"

\* The `?` and the `if !...  { return Ok(false) }` of lines 56-59, 70-72 and
\* 77-79: the loops go on only after Ok(true).
LoopContinues(res) == res = Ok(TRUE)

\* ------------------------------------------------------------------ inputs
\* The index operands of the accessor instructions of the input modules.
Indices == 0..1

\* The instruction that closes every function body of a decoded module.
End == Ins("End", 0)

\* The instructions the input function bodies are made of, before their End.
Instrs ==
    {GetLocal(i) : i \in Indices} \cup
    {GetGlobal(0), Ins("I32Add", 0), Ins("F64Add", 0), Ins("I32Const", 0), Ins("F64Const", 0)}

\* The instruction streams of a whole code section, body after body: at most
\* n instructions, the last one an End.
Streams(n) ==
    {<<>>} \cup
    UNION {{c \o <<End>> : c \in [1..(k - 1) -> Instrs \cup {End}]} : k \in 1..n}

\* The local declarations of the input function bodies: none, or one I64
\* local and then a run of zero I32 locals (which declares no variable).
LocalDecls == {<<>>, <<Local(1, "I64"), Local(0, "I32")>>}

FuncBody(locals, code) == [locals |-> locals, code |-> code]

\* The places of the Ends of a stream: where its bodies end.
Ends(stream) == {k \in 1..Len(stream) : stream[k] = End}

\* The code section of a stream: its b-th body runs from after the previous
\* End to its own End, and declares the locals ls[b].
CodeSection(stream, ls) ==
    [b \in 1..Cardinality(Ends(stream)) |->
        LET last == CHOOSE k \in Ends(stream) : Cardinality({j \in Ends(stream) : j <= k}) = b
            first == IF b = 1 THEN 1
                     ELSE 1 + CHOOSE k \in Ends(stream) : Cardinality({j \in Ends(stream) : j <= k}) = b - 1
        IN  FuncBody(ls[b], SubSeq(stream, first, last))]

\* The rest of a module: function section, type section, globals.
Header(functions, types, globals) ==
    [functions |-> functions, types |-> types, globals |-> globals]

\* The headers given to a code section of nb bodies.
Headers(nb) ==
    { \* no function section and no type section
      Header(None, None, <<>>),
      \* every function of type (i32, i32), as in the tests; no global
      Header(Some([b \in 1..nb |-> 0]), Some(<< <<"I32", "I32">> >>), <<>>),
      \* functions of type () and (f64, i32) in turn; one f64 global
      Header(Some([b \in 1..nb |-> b % 2]), Some(<< <<"F64", "I32">>, <<>> >>), <<"F64">>),
      \* a function section of one entry, whose type index is beyond the
      \* type section
      Header(Some(<<1>>), Some(<< <<"I64">> >>), <<"I64">>) }

Module(code, h) ==
    [code |-> code, functions |-> h.functions, types |-> h.types, globals |-> h.globals]

Filter == {"NumericInstructions", "NoFilter"}

\* ------------------------------------------------------------------- state
VARIABLES
    module,    \* the borrowed Module, never changed
    filter,    \* the validator's Filter
    stack,     \* the validator's stack field
    pc,        \* "idle": no call of validate in progress; "loop": inside one
    fidx,      \* the function body the loop of validate is at (from 1)
    iidx,      \* the instruction the loop of check_instructions is at (from 1)
    results,   \* what the finished calls of validate returned, in order
    examined,  \* the <<body, instruction>> places examined in this call, in order
    pre,       \* the stack before the instruction examined last
    raised     \* the errors raised in this call, each with the stack it left

vars == <<module, filter, stack, pc, fidx, iidx, results, examined, pre, raised>>

\* ModuleValidator::new
Init ==
    /\ \/ \E h \in Headers(0) : module = Module(None, h)
       \/ \E stream \in Streams(MaxInstrs) :
            \E ls \in [1..Cardinality(Ends(stream)) -> LocalDecls] :
                \E h \in Headers(Cardinality(Ends(stream))) :
                    module = Module(Some(CodeSection(stream, ls)), h)
    /\ filter \in Filter
    /\ stack = <<>>
    /\ pc = "idle"
    /\ fidx = 1
    /\ iidx = 1
    /\ results = <<>>
    /\ examined = <<>>
    /\ pre = <<>>
    /\ raised = <<>>

Bodies == module.code.val
Running == pc = "loop"
AtInstruction == Running /\ fidx <= Len(Bodies) /\ iidx <= Len(Bodies[fidx].code)
CurrentBody == Bodies[fidx]
CurrentInstruction == CurrentBody.code[iidx]

\* A call of validate: the match on code_section().
Validate ==
    /\ pc = "idle"
    /\ Len(results) < MaxCalls
    /\ examined' = <<>>
    /\ raised' = <<>>
    /\ pre' = stack
    /\ fidx' = 1
    /\ iidx' = 1
    /\ IF module.code.some
       THEN pc' = "loop" /\ UNCHANGED results
       ELSE pc' = "idle" /\ results' = Append(results, NoCodeResult)
    /\ UNCHANGED <<module, filter, stack>>

\* One turn of the loop of check_instructions; an error, a false or a panic
\* ends the call of validate.
CheckInstruction ==
    /\ AtInstruction
    /\ LET got == check_instruction(stack, module, filter, CurrentInstruction, CurrentBody, fidx)
       IN  /\ stack' = got.stack
           /\ pre' = stack
           /\ examined' = Append(examined, <<fidx, iidx>>)
           /\ raised' = IF got.res.kind = "Err"
                        THEN Append(raised, [error |-> got.res, stack |-> got.stack])
                        ELSE raised
           /\ IF LoopContinues(got.res)
              THEN /\ iidx' = iidx + 1
                   /\ UNCHANGED <<pc, fidx, results>>
              ELSE /\ pc' = "idle"
                   /\ results' = Append(results, got.res)
                   /\ UNCHANGED <<fidx, iidx>>
    /\ UNCHANGED <<module, filter>>

\* The loop of validate staying at the same body after check_instructions
\* returns.
EndFunction_restart ==
    /\ Running
    /\ fidx <= Len(Bodies)
    /\ iidx > Len(Bodies[fidx].code)
    /\ fidx' = fidx
    /\ iidx' = 1
    /\ UNCHANGED <<module, filter, stack, pc, results, examined, pre, raised>>

\* check_instructions returns Ok(true) at the end of a body (line 84) and
\* the loop of validate goes to the next body.
EndFunction ==
    /\ Running
    /\ fidx <= Len(Bodies)
    /\ iidx > Len(Bodies[fidx].code)
    /\ fidx' = fidx + 1
    /\ iidx' = 1
    /\ UNCHANGED <<module, filter, stack, pc, results, examined, pre, raised>>

\* validate returns Ok(true) after the last body (line 61).
Return ==
    /\ Running
    /\ fidx > Len(Bodies)
    /\ pc' = "idle"
    /\ results' = Append(results, Ok(TRUE))
    /\ UNCHANGED <<module, filter, stack, fidx, iidx, examined, pre, raised>>

Next == Validate \/ CheckInstruction \/ EndFunction \/ Return

Spec == Init /\ [][Next]_vars

\* ------------------------------------------------------------------ claims
Last(s) == s[Len(s)]
HasExamined == Len(examined) > 0
\* The instruction examined last in this call, and the body it is in.
LastBodyIndex == Last(examined)[1]
LastBody == Bodies[LastBodyIndex]
LastInstruction == LastBody.code[Last(examined)[2]]
\* The call of validate has ended with result r.
EndedWith(r) == pc = "idle" /\ Len(results) > 0 /\ Last(results) = r

\* The two topmost entries of a stack are both T.
TopTwoAre(stk, T) == Len(stk) >= 2 /\ stk[Len(stk)] = T /\ stk[Len(stk) - 1] = T

\* The binary operators of value type T.
BinopTable(T) ==
    CASE T = "I32" -> I32_BINOP [] T = "I64" -> I64_BINOP
      [] T = "F32" -> F32_BINOP [] T = "F64" -> F64_BINOP

\* The value type a constant push is named after.
ConstType(ins) ==
    CASE ins.op = "I32Const" -> "I32" [] ins.op = "I64Const" -> "I64"
      [] ins.op = "F32Const" -> "F32" [] ins.op = "F64Const" -> "F64"

\* The types of the local variables a body declares, one per variable.
RECURSIVE DeclaredLocals(_)
DeclaredLocals(locals) ==
    IF locals = <<>> THEN <<>>
    ELSE [k \in 1..Head(locals).count |-> Head(locals).value_type] \o DeclaredLocals(Tail(locals))

\* The parameter types of the b-th function (when its type resolves).
Params(b) == FunctionType(module, b).val
Resolves(b) == FunctionType(module, b).some

\* C1: in the first call of validate, the stack is empty when the first
\* instruction of a function body other than the first is about to be
\* examined.
C1_StackEmptyAtBodyStart ==
    (Len(results) = 0 /\ AtInstruction /\ fidx >= 2 /\ iidx = 1) => stack = <<>>

C3_ParamsThenLocals ==
    (HasExamined /\ LastInstruction.op = "GetLocal" /\ Resolves(LastBodyIndex)) =>
        LET env == Params(LastBodyIndex) \o DeclaredLocals(LastBody.locals)
            i == LastInstruction.idx
        IN  i < Len(env) => stack = Append(pre, env[i + 1])

\* A body is well typed: run from the empty stack, each of its instructions
\* is a constant push, a local-get of a parameter, or a binary operator of
\* type T met with two T on top of the stack; its End closes it.
RECURSIVE WellTypedFrom(_, _, _, _)
WellTypedFrom(code, k, stk, params) ==
    IF k > Len(code) THEN TRUE
    ELSE LET ins == code[k]
         IN  IF ins = End THEN k = Len(code)
             ELSE IF contains(ins, CONST_INST)
             THEN WellTypedFrom(code, k + 1, Append(stk, ConstType(ins)), params)
             ELSE IF ins.op = "GetLocal"
             THEN /\ ins.idx < Len(params)
                  /\ WellTypedFrom(code, k + 1, Append(stk, params[ins.idx + 1]), params)
             ELSE /\ \E T \in ValueType : contains(ins, BinopTable(T)) /\ TopTwoAre(stk, T)
                  /\ WellTypedFrom(code, k + 1, SubSeq(stk, 1, Len(stk) - 1), params)

WellTypedModule ==
    /\ module.code.some
    /\ \A b \in 1..Len(Bodies) : Resolves(b) /\ WellTypedFrom(Bodies[b].code, 1, <<>>, Params(b))

\* C4: under NumericInstructions, validate returns Ok(true) for a module all
\* of whose function bodies are well typed.
C4_WellTypedIsOkTrue ==
    (filter = "NumericInstructions" /\ WellTypedModule /\ Len(results) > 0)
        => results[1] = Ok(TRUE)

\* C5: a global-get (in a function whose type resolves) whose index is not
\* below the number of globals of the module ends validate with
\* GlobalNotFound.
C5_GlobalBeyondGlobalsNotFound ==
    (HasExamined /\ LastInstruction.op = "GetGlobal" /\ Resolves(LastBodyIndex)
        /\ LastInstruction.idx >= Len(module.globals))
        => EndedWith(GlobalNotFound)

\* C6: every call of validate on the same instance returns what the first
\* call returned.
C6_SecondCallSameResult ==
    \A k \in 1..Len(results) : results[k] = results[1]

C6_Witness ==
    /\ Len(results) = 2
    /\ results[2].kind = "Err"
    /\ results[2].error = "InvalidOperation"
    /\ Len(stack) >= 2

\* The place examined after place p: the next instruction of the body, or
\* the first one of the next body.
NextPlace(p) ==
    IF p[2] < Len(Bodies[p[1]].code) THEN <<p[1], p[2] + 1>> ELSE <<p[1] + 1, 1>>

\* C7: the places are examined in order, one after the other from the first;
\* at most one error is raised in a call, and once it is raised the call has
\* ended with that error, nothing examined after it and the stack as the
\* failing instruction left it.
C7_FailFastFirstViolation ==
    /\ HasExamined => examined[1] = <<1, 1>>
    /\ \A j \in 1..(Len(examined) - 1) : examined[j + 1] = NextPlace(examined[j])
    /\ Len(raised) <= 1
    /\ raised # <<>> => /\ EndedWith(raised[1].error)
                        /\ stack = raised[1].stack

C7_Witness ==
    /\ raised # <<>>
    /\ Len(examined) >= 2
    /\ LastBodyIndex < Len(Bodies)
    /\ Last(examined)[2] < Len(LastBody.code)

\* C8: a local-get (in a function whose type resolves) whose index is not
\* below the number of parameters plus the number of declared locals ends
\* validate with LocalNotFound and leaves the stack as it was.
C8_LocalBeyondEnvNotFound ==
    (HasExamined /\ LastInstruction.op = "GetLocal" /\ Resolves(LastBodyIndex)
        /\ LastInstruction.idx >=
             Len(Params(LastBodyIndex)) + Len(DeclaredLocals(LastBody.locals)))
        => EndedWith(LocalNotFound) /\ stack = pre

\* C9: no call of validate aborts.
C9_NeverPanics ==
    \A k \in 1..Len(results) : results[k].kind # "Panic"

\* C10: for a module without a code section every call of validate returns
\* Ok(true), under either filter, and the stack stays as it was (empty).
C10_NoCodeSectionIsOkTrue ==
    ~module.code.some =>
        /\ \A k \in 1..Len(results) : results[k] = Ok(TRUE)
        /\ stack = <<>>
        /\ examined = <<>>

C10_Witness ==
    /\ ~module.code.some
    /\ filter = "NoFilter"
    /\ Len(results) = 2

\* C11 as stated: under NoFilter no instruction raises an error, and every
\* call of validate that returns returns Ok(true).
C11_NoFilterNoError ==
    filter = "NoFilter" =>
        /\ raised = <<>>
        /\ \A k \in 1..Len(results) : results[k].kind # "Panic" => results[k] = Ok(TRUE)

\* C11, amended: under NoFilter no signature check is made. No call ends with
\* InvalidOperation; an instruction that is not an accessor leaves the stack
\* as it was and raises nothing; only an accessor instruction can end a call
\* with anything but Ok(true).
C11_NoFilterNoSignatureCheck ==
    filter = "NoFilter" =>
        /\ \A k \in 1..Len(results) : results[k].error # "InvalidOperation"
        /\ (HasExamined /\ ~contains(LastInstruction, GET_INST)) =>
              /\ stack = pre
              /\ raised = <<>>
              /\ pc = "idle" => Last(results) = Ok(TRUE)
        /\ (pc = "idle" /\ Len(results) > 0 /\ Last(results) # Ok(TRUE)) =>
              HasExamined /\ contains(LastInstruction, GET_INST)

C11_Witness ==
    /\ filter = "NoFilter"
    /\ HasExamined
    /\ contains(LastInstruction, BinopTable("I32"))
    /\ pre = <<>>
    /\ stack = <<>>
    /\ pc = "loop"

\* C12: a global-get (in a function whose type resolves) whose index g is
\* within the globals of the module pushes the type of global g and nothing
\* else.
C12_GlobalGetPushesGlobalType ==
    (HasExamined /\ LastInstruction.op = "GetGlobal" /\ Resolves(LastBodyIndex)
        /\ LastInstruction.idx < Len(module.globals))
        => stack = Append(pre, module.globals[LastInstruction.idx + 1])

\* The instruction is in one of the four binary-operator tables.
IsBinop(ins) == \E T \in ValueType : contains(ins, BinopTable(T))

\* C13: under NumericInstructions, when the instruction examined last is a
\* binary operator and the stack before it held fewer than two entries,
\* validate has ended with InvalidOperation carrying that instruction (not
\* with Ok, not with a panic).
C13_UnderflowIsInvalidOperation ==
    (filter = "NumericInstructions" /\ HasExamined /\ IsBinop(LastInstruction)
        /\ Len(pre) < 2)
        => EndedWith(InvalidOperation(LastInstruction))

C13_Witness ==
    /\ filter = "NumericInstructions"
    /\ HasExamined
    /\ contains(LastInstruction, I32_BINOP)
    /\ pre = <<"I32">>
    /\ stack = <<>>
    /\ EndedWith(InvalidOperation(LastInstruction))

\* C14: no call of validate returns Ok(false), under either filter.
C14_NeverOkFalse ==
    \A k \in 1..Len(results) : results[k] # Ok(FALSE)

C14_Witness ==
    /\ pc = "idle"
    /\ Len(results) >= 2
    /\ results[1].error = "InvalidOperation"
    /\ results[2].kind = "Err"

\* C15: under NumericInstructions, when the instruction examined last is a
\* binary operator of type T and the two topmost entries of the stack before
\* it were both T, the stack is the stack before without those two entries
\* and with one T on top, and no error is raised.
C15_BinopPopsTwoPushesOne ==
    \A T \in ValueType :
        (filter = "NumericInstructions" /\ HasExamined
            /\ contains(LastInstruction, BinopTable(T)) /\ TopTwoAre(pre, T))
            => /\ stack = Append(SubSeq(pre, 1, Len(pre) - 2), T)
               /\ Len(stack) = Len(pre) - 1
               /\ raised = <<>>
               /\ pc = "loop"

C15_Witness ==
    /\ filter = "NumericInstructions"
    /\ HasExamined
    /\ contains(LastInstruction, I32_BINOP)
    /\ Len(pre) >= 3
    /\ TopTwoAre(pre, "I32")
    /\ stack = Append(SubSeq(pre, 1, Len(pre) - 2), "I32")

\* C16: under NumericInstructions, when the instruction examined last is a
\* constant push, the stack is the stack before with the type the instruction
\* is named after on top, and no error is raised.
C16_ConstPushesItsType ==
    (filter = "NumericInstructions" /\ HasExamined
        /\ contains(LastInstruction, CONST_INST))
        => /\ stack = Append(pre, ConstType(LastInstruction))
           /\ raised = <<>>
           /\ pc = "loop"

C16_Witness ==
    /\ filter = "NumericInstructions"
    /\ HasExamined
    /\ LastInstruction.op = "F64Const"
    /\ pre = <<>>
    /\ stack = <<"F64">>

\* C17: under either filter, when the instruction examined last is not an
\* accessor and has no signature, the stack is as it was before it, no error
\* is raised, and the call, if it has ended, has ended with Ok(true).
C17_UnknownInstructionSkipped ==
    (HasExamined /\ ~contains(LastInstruction, GET_INST)
        /\ ~get_instruction_signature(LastInstruction).some)
        => /\ stack = pre
           /\ raised = <<>>
           /\ pc = "idle" => Last(results) = Ok(TRUE)

C17_Witness ==
    /\ filter = "NumericInstructions"
    /\ HasExamined
    /\ LastInstruction = End
    /\ pre # <<>>
    /\ stack = pre
    /\ pc = "loop"

\* The place p comes before the place q in the order of the code section.
Before(p, q) == p[1] < q[1] \/ (p[1] = q[1] /\ p[2] < q[2])

RECURSIVE CountInstructions(_)
CountInstructions(bodies) ==
    IF bodies = <<>> THEN 0
    ELSE Len(Head(bodies).code) + CountInstructions(Tail(bodies))

\* C18: a call of validate is one forward pass that ends with one outcome.
\* The places examined in a call go strictly forward (none twice, none before
\* an earlier one), so there are at most as many as the module has
\* instructions; a call in progress can always take its next step; a step
\* that ends the call records exactly one result, and no other step of the
\* loop records any.
C18_SinglePassOneOutcome ==
    /\ [](/\ \A j \in 1..Len(examined) : \A k \in 1..Len(examined) :
                j < k => Before(examined[j], examined[k])
          /\ module.code.some => Len(examined) <= CountInstructions(Bodies)
          /\ Running => ENABLED (CheckInstruction \/ EndFunction \/ Return))
    /\ [][/\ (pc = "loop" /\ pc' = "idle") => Len(results') = Len(results) + 1
          /\ (pc = "loop" /\ pc' = "loop") => results' = results
          /\ Len(results') <= Len(results) + 1]_vars

C18_Witness ==
    /\ pc = "idle"
    /\ Len(results) = 1
    /\ Len(Bodies) = 2
    /\ examined = <<<<1, 1>>, <<1, 2>>, <<2, 1>>, <<2, 2>>>>

\* The k-th pop of a binary operator of type T is the first that finds an
\* entry that is not T.
MismatchAt(stk, T, k) ==
    /\ Len(stk) >= k
    /\ stk[Len(stk) - k + 1] # T
    /\ \A j \in 1..(k - 1) : stk[Len(stk) - j + 1] = T

\* A pop of a binary operator of type T finds the stack empty.
Underflow(stk, T) ==
    /\ Len(stk) < 2
    /\ \A j \in 1..Len(stk) : stk[j] = T

IsPrefix(s, t) == Len(s) <= Len(t) /\ SubSeq(t, 1, Len(s)) = s

\* What C19 says of the stack after a failed signature check, but for the
\* prefix being strict.
FailedCheckRemoved ==
    \A T \in ValueType :
        (filter = "NumericInstructions" /\ HasExamined
            /\ contains(LastInstruction, BinopTable(T)))
            => /\ \A k \in 1..2 : MismatchAt(pre, T, k) =>
                    /\ EndedWith(InvalidOperation(LastInstruction))
                    /\ stack = SubSeq(pre, 1, Len(pre) - k)
               /\ Underflow(pre, T) =>
                    /\ EndedWith(InvalidOperation(LastInstruction))
                    /\ stack = <<>>

\* C19 as stated: after a failed signature check the k popped entries are
\* gone (all of them on underflow), nothing is pushed, and the stack is a
\* strict prefix of the stack before the failing instruction.
C19_FailedCheckLeavesStrictPrefix ==
    /\ FailedCheckRemoved
    /\ (raised # <<>> /\ raised[1].error.error = "InvalidOperation")
          => IsPrefix(stack, pre) /\ stack # pre

\* C19, amended: as above, with the stack after the error a prefix of the
\* stack before, strict unless the stack before was empty.
C19_FailedCheckLeavesPrefix ==
    /\ FailedCheckRemoved
    /\ (raised # <<>> /\ raised[1].error.error = "InvalidOperation")
          => /\ IsPrefix(stack, pre)
             /\ pre # <<>> => stack # pre
             /\ pre = <<>> => stack = <<>>

C19_Witness ==
    /\ filter = "NumericInstructions"
    /\ HasExamined
    /\ contains(LastInstruction, I32_BINOP)
    /\ pre = <<"F64", "I32">>
    /\ stack = <<>>
    /\ raised # <<>>

\* C20: under NumericInstructions, when the instruction examined last is an
\* accessor whose index resolves, it has no signature, the stack is the stack
\* before with one entry on top, and no error is raised.
C20_AccessorPushesOnce ==
    (filter = "NumericInstructions" /\ HasExamined
        /\ contains(LastInstruction, GET_INST) /\ Resolves(LastBodyIndex)
        /\ LastInstruction.idx < Len(LocalsOf(LastBody, Params(LastBodyIndex))))
        => /\ ~get_instruction_signature(LastInstruction).some
           /\ Len(stack) = Len(pre) + 1
           /\ SubSeq(stack, 1, Len(pre)) = pre
           /\ stack[Len(stack)] \in ValueType
           /\ raised = <<>>
           /\ pc = "loop"

C20_Witness ==
    /\ filter = "NumericInstructions"
    /\ HasExamined
    /\ LastInstruction.op = "GetGlobal"
    /\ pre # <<>>
    /\ Len(stack) = Len(pre) + 1
    /\ raised = <<>>

====
